---- MODULE Spec2Model ----
(***************************************************************************)
(* Model of src/app.py, the data layer of the disease dashboard: the three *)
(* fetch functions (fetch_states_snapshot, fetch_national_timeseries,     *)
(* fetch_state_timeseries) and the st.cache_data(ttl=60*30) memoisation   *)
(* that wraps each of them.                                                *)
(*                                                                         *)
(* A JSON value that may be null, and a DataFrame cell that may be NaN,   *)
(* is a sequence of length at most one: <<>> is null/NaN, <<v>> is v.     *)
(***************************************************************************)
EXTENDS Integers, Sequences, FiniteSets, TLC

VARIABLES
    cache,   \* st.cache_data store: cache key -> [value, created_at]
    now,     \* the clock, in seconds
    ncalls,  \* number of calls of the fetch functions made so far
    last     \* the most recent call: its arguments, what it requested, what it gave back

vars == <<cache, now, ncalls, last>>

-----------------------------------------------------------------------------
(* Bounds of the model.                                                    *)

\* rows of the current-period and prior-period payloads, taken together
MaxRows == 3
\* points of a time-series payload
MaxPoints == 3
\* calls of the fetch functions in one run of the process
MaxCalls == 2
\* the clock runs over MaxCycles TTL windows
MaxCycles == 1

-----------------------------------------------------------------------------
(* DataFrame cells.                                                        *)

NaN == <<>>

isna(x) == x = NaN

\* Series - Series: NaN when either operand is NaN
Sub(a, b) == IF isna(a) \/ isna(b) THEN NaN ELSE <<a[1] - b[1]>>

\* .fillna(0), followed by the integer cast: the cell is a number from here on
fillna0(x) == IF isna(x) THEN 0 ELSE x[1]

\* .clip(lower=0)
clip_lower0(n) == IF n < 0 THEN 0 ELSE n

\* the columns of pd.DataFrame(list of dicts): the union of the dicts' keys
Columns(payload) == UNION {DOMAIN payload[i] : i \in 1..Len(payload)}

\* a key one dict lacks while another has it is NaN in that row
Cell(row, col) == IF col \in DOMAIN row THEN row[col] ELSE NaN

-----------------------------------------------------------------------------
(* HTTP responses: requests.get raises on a timeout or a connection       *)
(* failure, raise_for_status raises on a non-2xx status, r.json() raises  *)
(* on a body that is not JSON.                                             *)

FailureStatuses == {"timeout", "http_error", "bad_json"}

OkResponse(payload) == [status |-> "ok", body |-> payload]

FailedResponse(s) == [status |-> s, body |-> <<>>]

Failed(r) == r.status # "ok"

\* what a call gives back: it raised, or it returned v
Raised(n) == [ok |-> FALSE, value |-> <<>>, nreq |-> n]

Returned(v, n) == [ok |-> TRUE, value |-> v, nreq |-> n]

-----------------------------------------------------------------------------
(* The region code table.                                                  *)

USPS ==
    "Alabama" :> "AL" @@ "Alaska" :> "AK" @@ "Arizona" :> "AZ" @@ "Arkansas" :> "AR" @@
    "California" :> "CA" @@ "Colorado" :> "CO" @@ "Connecticut" :> "CT" @@
    "Delaware" :> "DE" @@ "District of Columbia" :> "DC" @@ "Florida" :> "FL" @@
    "Georgia" :> "GA" @@ "Hawaii" :> "HI" @@ "Idaho" :> "ID" @@ "Illinois" :> "IL" @@
    "Indiana" :> "IN" @@ "Iowa" :> "IA" @@ "Kansas" :> "KS" @@ "Kentucky" :> "KY" @@
    "Louisiana" :> "LA" @@ "Maine" :> "ME" @@ "Maryland" :> "MD" @@
    "Massachusetts" :> "MA" @@ "Michigan" :> "MI" @@ "Minnesota" :> "MN" @@
    "Mississippi" :> "MS" @@ "Missouri" :> "MO" @@ "Montana" :> "MT" @@
    "Nebraska" :> "NE" @@ "Nevada" :> "NV" @@ "New Hampshire" :> "NH" @@
    "New Jersey" :> "NJ" @@ "New Mexico" :> "NM" @@ "New York" :> "NY" @@
    "North Carolina" :> "NC" @@ "North Dakota" :> "ND" @@ "Ohio" :> "OH" @@
    "Oklahoma" :> "OK" @@ "Oregon" :> "OR" @@ "Pennsylvania" :> "PA" @@
    "Rhode Island" :> "RI" @@ "South Carolina" :> "SC" @@ "South Dakota" :> "SD" @@
    "Tennessee" :> "TN" @@ "Texas" :> "TX" @@ "Utah" :> "UT" @@ "Vermont" :> "VT" @@
    "Virginia" :> "VA" @@ "Washington" :> "WA" @@ "West Virginia" :> "WV" @@
    "Wisconsin" :> "WI" @@ "Wyoming" :> "WY"

\* Series.map(USPS): the code, or NaN for a name the table lacks
map_USPS(name) == IF name \in DOMAIN USPS THEN <<USPS[name]>> ELSE NaN

-----------------------------------------------------------------------------
(* fetch_states_snapshot                                                   *)

keep_cols == {"state", "cases", "deaths"}

\* today[keep_cols].rename(...)
TodayFrame(payload) ==
    [i \in 1..Len(payload) |->
        [state        |-> Cell(payload[i], "state"),
         cases_today  |-> Cell(payload[i], "cases"),
         deaths_today |-> Cell(payload[i], "deaths")]]

\* yest[keep_cols].rename(...)
YestFrame(payload) ==
    [i \in 1..Len(payload) |->
        [state       |-> Cell(payload[i], "state"),
         cases_yest  |-> Cell(payload[i], "cases"),
         deaths_yest |-> Cell(payload[i], "deaths")]]

JoinRow(t, cy, dy) ==
    [state |-> t.state, cases_today |-> t.cases_today, deaths_today |-> t.deaths_today,
     cases_yest |-> cy, deaths_yest |-> dy]

\* today.merge(yest, on="state", how="left"): the left rows in their order,
\* each once per right row with the same key, once with NaN when there is none
RECURSIVE merge_left(_, _)
merge_left(today, yest) ==
    IF today = <<>> THEN <<>>
    ELSE LET t == Head(today)
             m == SelectSeq(yest, LAMBDA y : y.state = t.state)
         IN  (IF m = <<>> THEN <<JoinRow(t, NaN, NaN)>>
              ELSE [i \in 1..Len(m) |-> JoinRow(t, m[i].cases_yest, m[i].deaths_yest)])
             \o merge_left(Tail(today), yest)

\* (variant: without the clip)
Delta_unclipped(cur, prior) == fillna0(Sub(cur, prior))

\* (a - b).fillna(0).astype("int64").clip(lower=0)
Delta(cur, prior) == clip_lower0(fillna0(Sub(cur, prior)))

\* the todayCases, todayDeaths and state_code columns
WithDerived(df) ==
    [i \in 1..Len(df) |->
        [state        |-> df[i].state,
         cases_today  |-> df[i].cases_today,
         deaths_today |-> df[i].deaths_today,
         cases_yest   |-> df[i].cases_yest,
         deaths_yest  |-> df[i].deaths_yest,
         todayCases   |-> Delta(df[i].cases_today, df[i].cases_yest),
         todayDeaths  |-> Delta(df[i].deaths_today, df[i].deaths_yest),
         state_code   |-> map_USPS(df[i].state)]]

\* (variant: no row is dropped)
ValidStates_keep_all(df) == df

\* df[df["state_code"].notna()]
ValidStates(df) == SelectSeq(df, LAMBDA r : ~isna(r.state_code))

\* (variant: the prior-period retrieval is ignored and the deltas are taken
\* against nothing)
fetch_states_snapshot_partial(r1, r2) ==
    IF Failed(r1) THEN Raised(1)
    ELSE IF ~(keep_cols \subseteq Columns(r1.body)) THEN Raised(2)
    ELSE Returned(ValidStates(WithDerived(merge_left(TodayFrame(r1.body), <<>>))), 2)

\* fetch_states_snapshot without its cache, given what the two requests are
\* answered with; the second request is issued only when the first went through
fetch_states_snapshot(r1, r2) ==
    IF Failed(r1) THEN Raised(1)
    ELSE IF Failed(r2) THEN Raised(2)
    ELSE IF ~(keep_cols \subseteq Columns(r1.body)) THEN Raised(2)
    ELSE IF ~(keep_cols \subseteq Columns(r2.body)) THEN Raised(2)
    ELSE Returned(ValidStates(WithDerived(
                    merge_left(TodayFrame(r1.body), YestFrame(r2.body)))), 2)

-----------------------------------------------------------------------------
(* fetch_national_timeseries and fetch_state_timeseries                    *)

(* A date as the payload writes it: year, month and day, the month and day *)
(* zero-padded ("2020-01-02") or not ("2020-1-2"). pd.to_datetime reads    *)
(* both forms as the same Timestamp and raises on a date that is none.     *)
DateText(y, m, d, padded) == [y |-> y, m |-> m, d |-> d, padded |-> padded]

DaysInMonth(y, m) ==
    IF m \in {4, 6, 9, 11} THEN 30
    ELSE IF m # 2 THEN 31
    ELSE IF y % 4 = 0 /\ (y % 100 # 0 \/ y % 400 = 0) THEN 29 ELSE 28

ParsesAsDate(text) == text.m \in 1..12 /\ text.d \in 1..DaysInMonth(text.y, text.m)

to_datetime(text) == <<text.y, text.m, text.d>>

\* Timestamp comparison
Earlier(a, b) ==
    \/ a[1] < b[1]
    \/ a[1] = b[1] /\ a[2] < b[2]
    \/ a[1] = b[1] /\ a[2] = b[2] /\ a[3] < b[3]

\* df["date"] = pd.to_datetime(df["date"])
ParsedFrame(payload) ==
    [i \in 1..Len(payload) |->
        [date  |-> to_datetime(Cell(payload[i], "date")),
         cases |-> Cell(payload[i], "cases")]]

\* the orders (of row numbers) in which no row comes before an earlier one:
\* any row with the least date first, then the rest likewise
RECURSIVE AscendingOrders(_, _)
AscendingOrders(df, rows) ==
    IF rows = {} THEN {<<>>}
    ELSE UNION {{<<i>> \o rest : rest \in AscendingOrders(df, rows \ {i})} :
                i \in {i \in rows : \A j \in rows : ~Earlier(df[j].date, df[i].date)}}

\* df.sort_values("date"): the default sort is not stable, so rows with equal
\* dates may come out in either order
sort_values(df) ==
    {[i \in 1..Len(df) |-> df[p[i]]] : p \in AscendingOrders(df, 1..Len(df))}

\* Series.diff(): NaN for the first row, then the difference to the row before
diff(df, i) == IF i = 1 THEN NaN ELSE Sub(df[i].cases, df[i - 1].cases)

\* (variant: without the clip)
new_cases_unclipped(df, i) == fillna0(diff(df, i))

\* df["cases"].diff().fillna(0).clip(lower=0).astype(int)
new_cases(df, i) == clip_lower0(fillna0(diff(df, i)))

\* df[["date", "cases", "new_cases"]]
WithNewCases(df) ==
    [i \in 1..Len(df) |->
        [date |-> df[i].date, cases |-> df[i].cases, new_cases |-> new_cases(df, i)]]

\* a column in which no row holds a number is of dtype object; the
\* subtraction inside diff() then raises as soon as there are two rows, unless
\* pandas has read the nulls as NaN (a row that lacks the key among them)
DiffMayRaise(payload) ==
    Len(payload) >= 2 /\ \A i \in 1..Len(payload) : isna(Cell(payload[i], "cases"))

\* pd.to_datetime settles on the form of the first date; whether it then
\* reads or rejects a date written in the other form depends on the pandas
\* in use
FormatMayRaise(payload) ==
    \E i, j \in 1..Len(payload) : payload[i].date.padded # payload[j].date.padded

\* fetch_national_timeseries without its cache, given what the request is
\* answered with: every result the call can give back
fetch_national_timeseries(r) ==
    IF Failed(r) THEN {Raised(1)}
    ELSE IF ~({"date", "cases"} \subseteq Columns(r.body)) THEN {Raised(1)}
    ELSE IF \E i \in 1..Len(r.body) : ~ParsesAsDate(r.body[i].date) THEN {Raised(1)}
    ELSE {Returned(WithNewCases(s), 1) : s \in sort_values(ParsedFrame(r.body))}
         \cup (IF FormatMayRaise(r.body) \/ DiffMayRaise(r.body) THEN {Raised(1)} ELSE {})

\* fetch_state_timeseries without its cache: the same steps on the answer to
\* the per-state request
fetch_state_timeseries(r) ==
    IF Failed(r) THEN {Raised(1)}
    ELSE IF ~({"date", "cases"} \subseteq Columns(r.body)) THEN {Raised(1)}
    ELSE IF \E i \in 1..Len(r.body) : ~ParsesAsDate(r.body[i].date) THEN {Raised(1)}
    ELSE {Returned(WithNewCases(s), 1) : s \in sort_values(ParsedFrame(r.body))}
         \cup (IF FormatMayRaise(r.body) \/ DiffMayRaise(r.body) THEN {Raised(1)} ELSE {})

-----------------------------------------------------------------------------
(* The upstream source. A request is a URL; the answer to it is a failure  *)
(* or one of the editions of the data the source holds for that URL.       *)

URL(endpoint, region, lastdays, yesterday) ==
    [endpoint |-> endpoint, region |-> region, lastdays |-> lastdays,
     yesterday |-> yesterday]

url_today == URL("states", "", 0, FALSE)

url_yest == URL("states", "", 0, TRUE)

url_national(days) == URL("nyt/usa", "", days, FALSE)

url_state(state_name, days) == URL("nyt/states", state_name, days, FALSE)

\* the editions of its data the source publishes while the process runs
Editions == {1, 2}

\* the values of the sidebar's days slider and state selectbox the model calls with
SampleDays == {60, 90}

SampleRegions == {"Texas", "Ohio"}

\* /states: cumulative counts per region as of edition e (Guam is a region
\* the source reports and the code table lacks)
StatesPayload(e) ==
    << [state |-> "Texas", cases |-> <<100 + 10 * e>>, deaths |-> <<e>>],
       [state |-> "Guam",  cases |-> <<e>>,            deaths |-> NaN] >>

RegionOffset(region) ==
    IF region = "" THEN 1000 ELSE IF region = "Texas" THEN 2000 ELSE 3000

\* /nyt/usa and /nyt/states/{name}: one point per 30 days asked for
SeriesPayload(region, days, e) ==
    [i \in 1..(days \div 30) |->
        [date |-> DateText(2020, 1, i, TRUE), cases |-> <<RegionOffset(region) + 10 * e + i>>]]

Payloads(url) ==
    IF url.endpoint = "states"
    THEN {StatesPayload(IF url.yesterday THEN e - 1 ELSE e) : e \in Editions}
    ELSE {SeriesPayload(url.region, url.lastdays, e) : e \in Editions}

Served(url) ==
    {OkResponse(p) : p \in Payloads(url)} \cup {FailedResponse(s) : s \in FailureStatuses}

-----------------------------------------------------------------------------
(* st.cache_data(ttl=60*30)                                                *)

\* (variant: thirty seconds for thirty minutes)
TTL_in_seconds == 60 \div 2

\* ttl=60*30, in seconds
TTL == 60 * 30

\* (variant: the last argument, days, is left out of the key)
CacheKey_ignoring_days(fn, args) ==
    <<fn, IF args = <<>> THEN args ELSE SubSeq(args, 1, Len(args) - 1)>>

\* the key of an entry: the function and the arguments of the call
CacheKey(fn, args) == <<fn, args>>

\* (variant: an entry exactly TTL old is still served)
Fresh_inclusive(c, k, t) == k \in DOMAIN c /\ t - c[k].created_at <= TTL

\* an entry is served while it is younger than the TTL
Fresh(c, k, t) == k \in DOMAIN c /\ t - c[k].created_at < TTL

\* (variant: an entry is written also when the body raised)
Store_always(c, k, out, t) == (k :> [value |-> out.value, created_at |-> t]) @@ c

\* only a value the function returned is stored; an exception passes through
Store(c, k, out, t) ==
    IF out.ok THEN (k :> [value |-> out.value, created_at |-> t]) @@ c ELSE c

-----------------------------------------------------------------------------
(* Calls.                                                                  *)

\* every result the body of fn can give back when its requests are answered with rs
Outcomes(fn, rs) ==
    IF fn = "fetch_states_snapshot" THEN {fetch_states_snapshot(rs[1], rs[2])}
    ELSE IF fn = "fetch_national_timeseries" THEN fetch_national_timeseries(rs[1])
    ELSE fetch_state_timeseries(rs[1])

\* what the cache finds under a key at time t: a "hit" on a fresh entry, an
\* "expired" entry, or a "miss"
Lookup(c, k, t) ==
    IF Fresh(c, k, t) THEN "hit" ELSE IF k \in DOMAIN c THEN "expired" ELSE "miss"

CallRecord(fn, args, ok, value, lookup, nreq, responses) ==
    [fn |-> fn, args |-> args, ok |-> ok, value |-> value, lookup |-> lookup,
     nreq |-> nreq, responses |-> responses]

\* one call of a cached function, at the instant now: a fresh entry is
\* returned as it is; otherwise the body runs, and what it returns is stored
Call(fn, args, rs) ==
    /\ ncalls < MaxCalls
    /\ ncalls' = ncalls + 1
    /\ now' = now
    /\ LET k == CacheKey(fn, args) IN
       IF Fresh(cache, k, now)
       THEN /\ cache' = cache
            /\ last' = CallRecord(fn, args, TRUE, cache[k].value, "hit", 0, <<>>)
       ELSE \E out \in Outcomes(fn, rs) :
            /\ cache' = Store(cache, k, out, now)
            /\ last' = CallRecord(fn, args, out.ok, out.value, Lookup(cache, k, now),
                                  out.nreq, SubSeq(rs, 1, out.nreq))

Init ==
    /\ cache = <<>>
    /\ now = 0
    /\ ncalls = 0
    /\ last = CallRecord("", <<>>, FALSE, <<>>, "miss", 0, <<>>)

\* the instants the clock is read at: each multiple of 1800 seconds and the
\* second before it
Instants == {t \in {k * 1800 - d : k \in 0..MaxCycles, d \in {0, 1}} : t >= 0}

Tick ==
    /\ \E t \in Instants : t > now /\ now' = t
    /\ UNCHANGED <<cache, ncalls, last>>

CallSnapshot ==
    \E r1 \in Served(url_today), r2 \in Served(url_yest) :
        Call("fetch_states_snapshot", <<>>, <<r1, r2>>)

CallNational ==
    \E days \in SampleDays : \E r \in Served(url_national(days)) :
        Call("fetch_national_timeseries", <<days>>, <<r>>)

CallState ==
    \E state_name \in SampleRegions, days \in SampleDays :
        \E r \in Served(url_state(state_name, days)) :
            Call("fetch_state_timeseries", <<state_name, days>>, <<r>>)

Next == CallSnapshot \/ CallNational \/ CallState \/ Tick

Spec == Init /\ [][Next]_vars

-----------------------------------------------------------------------------
(* The first call of fetch_states_snapshot in a fresh process, the source  *)
(* answering with any pair of responses: payloads of up to MaxRows rows in *)
(* all, a region name the table has and one it lacks, counts that are      *)
(* null, rise or fall, rows without a deaths field, and failed requests.   *)

SampleStates == {"Texas", "Guam"}

SampleCases == {NaN, <<1>>, <<3>>}

SampleDeaths == {<<0>>, <<2>>}

SnapshotRows ==
    {[state |-> s, cases |-> c, deaths |-> d] :
        s \in SampleStates, c \in SampleCases, d \in SampleDeaths}
    \cup {[state |-> s, cases |-> <<1>>] : s \in SampleStates}

Lists(S, n) == [1..n -> S]

AnyRequestFailure == {FailedResponse(s) : s \in FailureStatuses}

\* both requests answered
FirstSnapshotAnswered ==
    /\ ncalls = 0
    /\ \E n1 \in 0..MaxRows : \E n2 \in 0..(MaxRows - n1) :
       \E p1 \in Lists(SnapshotRows, n1), p2 \in Lists(SnapshotRows, n2) :
            Call("fetch_states_snapshot", <<>>, <<OkResponse(p1), OkResponse(p2)>>)

\* the first or the second request fails
FirstSnapshotFailing ==
    /\ ncalls = 0
    /\ \E f \in AnyRequestFailure :
        \/ Call("fetch_states_snapshot", <<>>, <<f, f>>)
        \/ \E n1 \in 0..MaxRows : \E p1 \in Lists(SnapshotRows, n1) :
            Call("fetch_states_snapshot", <<>>, <<OkResponse(p1), f>>)

NextSnapshot == FirstSnapshotAnswered \/ FirstSnapshotFailing

SpecSnapshot == Init /\ [][NextSnapshot]_vars

-----------------------------------------------------------------------------
(* The first call of a time-series function in a fresh process, the source *)
(* answering with any response: up to MaxPoints points in any order, dates *)
(* that repeat, are written unpadded or are no dates, counts that are      *)
(* null, rise or fall, points without a cases field, and failed requests.  *)

SampleDates ==
    {DateText(2020, 1, 1, TRUE), DateText(2020, 1, 2, TRUE),
     DateText(2020, 1, 2, FALSE), DateText(2020, 2, 1, TRUE)}

SeriesPoints ==
    {[date |-> d, cases |-> c] : d \in SampleDates, c \in SampleCases}
    \cup {[date |-> DateText(2020, 1, 1, TRUE)]}
    \cup {[date |-> DateText(2020, 13, 1, TRUE), cases |-> <<1>>]}

SeriesResponses(n) == {OkResponse(p) : p \in Lists(SeriesPoints, n)} \cup AnyRequestFailure

FirstNational ==
    /\ ncalls = 0
    /\ \E days \in SampleDays, n \in 0..MaxPoints : \E r \in SeriesResponses(n) :
        Call("fetch_national_timeseries", <<days>>, <<r>>)

FirstState ==
    /\ ncalls = 0
    /\ \E state_name \in SampleRegions, days \in SampleDays, n \in 0..MaxPoints :
       \E r \in SeriesResponses(n) :
        Call("fetch_state_timeseries", <<state_name, days>>, <<r>>)

NextSeries == FirstNational \/ FirstState

SpecSeries == Init /\ [][NextSeries]_vars

-----------------------------------------------------------------------------
(* Properties of fetch_states_snapshot, under SpecSnapshot.                *)

SnapshotReturned == last.fn = "fetch_states_snapshot" /\ last.ok

RowsOf(seq) == {seq[i] : i \in 1..Len(seq)}

\* max(0, cur - prior) when both counts are present, 0 when either is absent
ExpectedDelta(cur, prior) ==
    IF cur # <<>> /\ prior # <<>>
    THEN (IF cur[1] - prior[1] > 0 THEN cur[1] - prior[1] ELSE 0)
    ELSE 0

\* C1: in every row fetch_states_snapshot returns, todayCases is
\* max(0, cases_today - cases_yest) when both counts are present and 0 when
\* either is absent, todayDeaths likewise from the deaths counts, and so
\* neither is negative, also when the current count is below the prior one.
C1_NonNegativeDeltas ==
    SnapshotReturned =>
        \A r \in RowsOf(last.value) :
            /\ r.todayCases = ExpectedDelta(r.cases_today, r.cases_yest)
            /\ r.todayDeaths = ExpectedDelta(r.deaths_today, r.deaths_yest)
            /\ r.todayCases >= 0
            /\ r.todayDeaths >= 0

\* a returned row whose current case count is below the prior one (clipped to
\* 0) while its death count rose
C1_Witness ==
    /\ SnapshotReturned
    /\ \E r \in RowsOf(last.value) :
        /\ r.cases_today # <<>> /\ r.cases_yest # <<>>
        /\ r.cases_today[1] < r.cases_yest[1]
        /\ r.todayCases = 0
        /\ r.todayDeaths > 0

\* C2: a region of the current-period payload whose name the USPS table
\* lacks has no row in the output of fetch_states_snapshot, and every row of
\* the output carries the code the table gives its state name.
C2_OnlyMappedRegions ==
    SnapshotReturned =>
        /\ \A p \in RowsOf(last.responses[1].body) :
            p.state \notin DOMAIN USPS =>
                \A r \in RowsOf(last.value) : r.state # p.state
        /\ \A r \in RowsOf(last.value) :
            /\ r.state \in DOMAIN USPS
            /\ r.state_code = <<USPS[r.state]>>

\* the payload lists a region the table lacks and one it has, and only the
\* latter is returned
C2_Witness ==
    /\ SnapshotReturned
    /\ \E p \in RowsOf(last.responses[1].body) : p.state = "Guam"
    /\ \E r \in RowsOf(last.value) : r.state = "Texas" /\ r.state_code = <<"TX">>

\* a retrieval that did not yield the three fields: the request failed, or
\* the payload has no state, cases or deaths field
RetrievalFailed(r) ==
    Failed(r) \/ ~({"state", "cases", "deaths"} \subseteq Columns(r.body))

\* C6: fetch_states_snapshot is all-or-nothing: when either retrieval fails
\* (network error, non-success status, malformed payload) the call fails
\* and returns no rows, and a call that returns has made both retrievals.
C6_AllOrNothing ==
    last.fn = "fetch_states_snapshot" =>
        /\ (\E i \in 1..Len(last.responses) : RetrievalFailed(last.responses[i]))
              => ~last.ok /\ last.value = <<>>
        /\ last.ok => last.nreq = 2 /\ Len(last.responses) = 2

\* the current-period retrieval delivered rows, the prior-period one failed,
\* and the call failed
C6_Witness ==
    /\ last.fn = "fetch_states_snapshot"
    /\ Len(last.responses) = 2
    /\ ~Failed(last.responses[1]) /\ ~RetrievalFailed(last.responses[1])
    /\ \E r \in RowsOf(last.responses[1].body) : r.state = "Texas"
    /\ Failed(last.responses[2])
    /\ ~last.ok

\* C7 (as claimed): whatever the prior-period payload lists, the output of
\* fetch_states_snapshot has exactly one row for each region of the
\* current-period payload whose name resolves to a code. The current-period
\* payload is taken to list each region once.
C7_OneRowPerRegion ==
    (/\ SnapshotReturned
     /\ \A i, j \in 1..Len(last.responses[1].body) :
            last.responses[1].body[i].state = last.responses[1].body[j].state => i = j)
    => \A p \in RowsOf(last.responses[1].body) :
            p.state \in DOMAIN USPS =>
                Cardinality({i \in 1..Len(last.value) : last.value[i].state = p.state}) = 1

-----------------------------------------------------------------------------
(* Properties of the time-series functions, under SpecSeries.              *)

SeriesFunctions == {"fetch_national_timeseries", "fetch_state_timeseries"}

SeriesReturned == last.fn \in SeriesFunctions /\ last.ok

\* C3: in every series fetch_national_timeseries or fetch_state_timeseries
\* returns, in the returned order, new_cases of the first point is 0 and
\* new_cases of each later point is max(0, cases[i] - cases[i-1]) (0 when one
\* of the two counts is null), whatever the order of the payload's points.
C3_FirstDifference ==
    SeriesReturned =>
        /\ Len(last.value) > 0
        /\ last.value[1].new_cases = 0
        /\ \A i \in 2..Len(last.value) :
            last.value[i].new_cases =
                ExpectedDelta(last.value[i].cases, last.value[i - 1].cases)
        /\ \A i \in 1..Len(last.value) : last.value[i].new_cases >= 0

\* the payload lists a later date before an earlier one, and the returned
\* series has a rise (new_cases > 0) and a fall (new_cases clipped to 0)
C3_Witness ==
    /\ SeriesReturned
    /\ \E i \in 1..Len(last.responses[1].body) - 1 :
        Earlier(to_datetime(last.responses[1].body[i + 1].date),
                to_datetime(last.responses[1].body[i].date))
    /\ \E i \in 2..Len(last.value) : last.value[i].new_cases > 0
    /\ \E i \in 2..Len(last.value) :
        /\ last.value[i].cases # <<>> /\ last.value[i - 1].cases # <<>>
        /\ last.value[i].cases[1] < last.value[i - 1].cases[1]
        /\ last.value[i].new_cases = 0

\* C8 (as claimed): for every payload, the dates of the returned series are
\* unique and strictly increasing. Stated for the payloads in which every
\* point carries a count.
C8_StrictlyIncreasingDates ==
    (/\ SeriesReturned
     /\ \A p \in RowsOf(last.responses[1].body) : "cases" \in DOMAIN p /\ p.cases # <<>>)
    => \A i \in 1..Len(last.value) - 1 :
            Earlier(last.value[i].date, last.value[i + 1].date)

-----------------------------------------------------------------------------
(* Properties of the cache, under Spec.                                    *)

\* the step is a call, and last' describes it
IsCall == ncalls' = ncalls + 1

\* the (function, arguments) pair of the call a record describes
KeyOf(call) == <<call.fn, call.args>>

\* the age of the entry the cache holds for the call that is being made
AgeAtCall == now - cache[KeyOf(last')].created_at

\* C4: once a call has succeeded and its result is stored, every call with
\* the same arguments made less than 1800 seconds after the entry was
\* created returns the stored result and issues no upstream request; the
\* stored result is the one the successful call returned.
C4_ServedFromCacheWithinTTL ==
    [][IsCall =>
        /\ (KeyOf(last') \in DOMAIN cache /\ AgeAtCall < 1800) =>
              /\ last'.ok
              /\ last'.value = cache[KeyOf(last')].value
              /\ last'.nreq = 0
              /\ cache' = cache
        /\ (last'.ok /\ last'.nreq > 0) =>
              /\ KeyOf(last') \in DOMAIN cache'
              /\ cache'[KeyOf(last')] = [value |-> last'.value, created_at |-> now]
      ]_vars

\* a call answered from an entry that is 1799 seconds old
C4_Witness ==
    /\ last.lookup = "hit"
    /\ last.nreq = 0
    /\ KeyOf(last) \in DOMAIN cache
    /\ now - cache[KeyOf(last)].created_at = 1799
    /\ last.value = cache[KeyOf(last)].value

\* C5: a call made 1800 seconds or more after the entry for its arguments
\* was created performs a fresh upstream retrieval, and what it returns is
\* computed from the responses to that retrieval and replaces the entry.
C5_RefetchAfterTTL ==
    [][(IsCall /\ KeyOf(last') \in DOMAIN cache /\ AgeAtCall >= 1800) =>
        /\ last'.nreq >= 1
        /\ Len(last'.responses) = last'.nreq
        /\ last'.ok =>
              /\ last'.value \in {o.value : o \in Outcomes(last'.fn, last'.responses)}
              /\ cache'[KeyOf(last')] = [value |-> last'.value, created_at |-> now]
      ]_vars

\* a call that found an entry exactly 1800 seconds old, fetched again,
\* returned what it fetched and stored it in place of the old entry
C5_Witness ==
    /\ last.lookup = "expired"
    /\ last.ok
    /\ last.nreq >= 1
    /\ now = 1800
    /\ cache[KeyOf(last)] = [value |-> last.value, created_at |-> 1800]

\* the answers the source can give to the requests of a call of fn(args)
AnswersTo(fn, args) ==
    IF fn = "fetch_states_snapshot"
    THEN {<<OkResponse(p1), OkResponse(p2)>> :
            p1 \in Payloads(url_today), p2 \in Payloads(url_yest)}
    ELSE IF fn = "fetch_national_timeseries"
    THEN {<<OkResponse(p)>> : p \in Payloads(url_national(args[1]))}
    ELSE {<<OkResponse(p)>> : p \in Payloads(url_state(args[1], args[2]))}

\* the results fn(args) can compute from what the source holds for it
ResultsOf(fn, args) ==
    UNION {{o.value : o \in {x \in Outcomes(fn, rs) : x.ok}} : rs \in AnswersTo(fn, args)}

\* C9: whatever calls came before, a call that returns gives back a result
\* computed by the same function for the same arguments (same region, same
\* days), never one stored for other arguments or by another function.
C9_KeyedByFunctionAndArguments ==
    (last.fn # "" /\ last.ok) => last.value \in ResultsOf(last.fn, last.args)

\* a time series returned for one region while an entry for another
\* function, region or days value is in the cache
C9_Witness ==
    /\ last.fn = "fetch_state_timeseries"
    /\ last.ok
    /\ \E k \in DOMAIN cache : k # KeyOf(last) /\ k[1] \in SeriesFunctions

\* C10: a call that fails leaves the cache as it was and has contacted the
\* source; the next call with the same arguments contacts the source again.
C10_FailureNotCached ==
    [][IsCall =>
        /\ ~last'.ok => (cache' = cache /\ last'.nreq >= 1)
        /\ (last.fn # "" /\ ~last.ok /\ KeyOf(last') = KeyOf(last)) => last'.nreq >= 1
      ]_vars

\* a call that found an expired entry, contacted the source and failed: the
\* entry is still the old one, neither refreshed nor replaced
C10_Witness ==
    /\ last.fn # ""
    /\ ~last.ok
    /\ last.lookup = "expired"
    /\ last.nreq >= 1
    /\ cache[KeyOf(last)].created_at = 0
    /\ now >= 1800

====
